---- MODULE Spec2Model ----
(***************************************************************************)
(* A model of premium_chatbot.py: the Streamlit script that keeps a chat   *)
(* log in st.session_state.chat, persists it to memory.json and answers a  *)
(* message either by a slash command or through the Gemini model.           *)
(*                                                                         *)
(* A text is a sequence of tokens.  A token is a whitespace character      *)
(* (" " or "\n"), a sentence terminator (".", "!" or "?") or a run of      *)
(* other characters.  The literal strings of the program are written so    *)
(* that every whitespace and every terminator the program's string         *)
(* operations look at is a token of its own.  A character outside ASCII   *)
(* is written in ASCII: the dash as "--", an emoji as its name in          *)
(* brackets; the backquote is written as an apostrophe.                    *)
(***************************************************************************)
EXTENDS Integers, Sequences, FiniteSets, TLC

VARIABLES
    chat,             \* st.session_state.chat
    file,             \* memory.json
    username,         \* st.session_state["username"]
    mood,             \* st.session_state["mood"]
    voice_on,         \* st.session_state["voice_on"]
    trim_long_reads,  \* st.session_state["trim_long_reads"]
    last_response,    \* st.session_state.last_response
    now,              \* the wall clock, in seconds
    run,              \* what the last run of the script was given and did
    text,             \* the argument of a call of smart_trim_text
    trimmed           \* the result of that call

vars == <<chat, file, username, mood, voice_on, trim_long_reads,
          last_response, now, run, text, trimmed>>

-----------------------------------------------------------------------------
(* Python values *)

\* Optional values: None, or a value v held as <<v>>.
None == <<>>

Some(v) == <<v>>

Truthy(opt) == opt # None /\ opt[1] # <<>>

Min(S) == CHOOSE x \in S : \A y \in S : x <= y

Max(S) == CHOOSE x \in S : \A y \in S : y <= x

-----------------------------------------------------------------------------
(* Strings *)

Whitespace == {" ", "\n"}

Terminators == {".", "!", "?"}

\* str.strip()
RECURSIVE lstrip(_)
lstrip(s) ==
    IF s # <<>> /\ Head(s) \in Whitespace THEN lstrip(Tail(s)) ELSE s

RECURSIVE rstrip(_)
rstrip(s) ==
    IF s # <<>> /\ s[Len(s)] \in Whitespace
    THEN rstrip(SubSeq(s, 1, Len(s) - 1))
    ELSE s

strip(s) == rstrip(lstrip(s))

\* sep.join(parts)
RECURSIVE join(_, _)
join(sep, parts) ==
    IF parts = <<>> THEN <<>>
    ELSE IF Len(parts) = 1 THEN parts[1]
    ELSE parts[1] \o sep \o join(sep, Tail(parts))

\* re.split(r'(?<=[.!?])\s+', s): a split point is a run of whitespace that
\* follows a terminator; the run is dropped.
RECURSIVE re_split(_)
re_split(s) ==
    LET at == {i \in 2..Len(s) : s[i] \in Whitespace /\ s[i-1] \in Terminators}
    IN  IF at = {} THEN <<s>>
        ELSE LET i == Min(at)
                 j == Max({k \in i..Len(s) : \A m \in i..k : s[m] \in Whitespace})
             IN  <<SubSeq(s, 1, i - 1)>> \o re_split(SubSeq(s, j + 1, Len(s)))

-----------------------------------------------------------------------------
(* smart_trim_text *)

MAX_SENTENCES == 3

Ellipsis == <<" ", ".", ".", ".">>

\* The sentences[max_sentences:] slice taken one sentence too late.
smart_trim_text_skip(t, max_sentences) ==
    LET sentences == re_split(strip(t))
    IN  IF Len(sentences) <= max_sentences
        THEN [displayed |-> t, remainder |-> None]
        ELSE [displayed |->
                  join(<<" ">>, SubSeq(sentences, 1, max_sentences)) \o Ellipsis,
              remainder |->
                  Some(join(<<" ">>,
                            SubSeq(sentences, max_sentences + 2, Len(sentences))))]

\* The short branch returning the stripped text it split.
smart_trim_text_stripped(t, max_sentences) ==
    LET sentences == re_split(strip(t))
    IN  IF Len(sentences) <= max_sentences
        THEN [displayed |-> strip(t), remainder |-> None]
        ELSE [displayed |->
                  join(<<" ">>, SubSeq(sentences, 1, max_sentences)) \o Ellipsis,
              remainder |->
                  Some(join(<<" ">>,
                            SubSeq(sentences, max_sentences + 1, Len(sentences))))]

smart_trim_text(t, max_sentences) ==
    LET sentences == re_split(strip(t))
    IN  IF Len(sentences) <= max_sentences
        THEN [displayed |-> t, remainder |-> None]
        ELSE [displayed |->
                  join(<<" ">>, SubSeq(sentences, 1, max_sentences)) \o Ellipsis,
              remainder |->
                  Some(join(<<" ">>,
                            SubSeq(sentences, max_sentences + 1, Len(sentences))))]

-----------------------------------------------------------------------------
(* Bounds *)

\* Every run of the script takes a second of the clock; runs are accepted
\* until the clock shows MaxClock seconds.
MaxClock == 2

-----------------------------------------------------------------------------
(* str.lower(), "in" and str.startswith() on the tokens of the model *)

\* The tokens of the model that hold an upper-case letter, with their
\* lower-case forms.
LowerTable ==
    ("Hi" :> "hi")
    @@ ("Hello" :> "hello")
    @@ ("/DATE" :> "/date")
    @@ ("Sam" :> "sam")
    @@ ("One" :> "one")
    @@ ("Two" :> "two")
    @@ ("Three" :> "three")
    @@ ("Four" :> "four")
    @@ ("Sure" :> "sure")
    @@ ("Tomorrow's forecast" :> "tomorrow's forecast")
    @@ ("Weekly summary" :> "weekly summary")
    @@ ("Humidity details" :> "humidity details")
    @@ ("Another" :> "another")
    @@ ("Short pun" :> "short pun")
    @@ ("Clean" :> "clean")
    @@ ("Explain simply" :> "explain simply")
    @@ ("Give an example" :> "give an example")
    @@ ("Summarize in 2 lines" :> "summarize in 2 lines")
    @@ ("API key not valid" :> "api key not valid")
    @@ ("You are a helpful assistant" :> "you are a helpful assistant")
    @@ ("Be friendly, clear, and encouraging" :> "be friendly, clear, and encouraging")
    @@ ("Answer politely, concisely, and formally" :> "answer politely, concisely, and formally")
    @@ ("Be playful, use light humor and friendly tone" :> "be playful, use light humor and friendly tone")
    @@ ("Use mild sarcasm and witty lines while staying helpful" :> "use mild sarcasm and witty lines while staying helpful")
    @@ ("Explain clearly with examples and simple language" :> "explain clearly with examples and simple language")
    @@ ("Address the user as" :> "address the user as")
    @@ ("Conversation:" :> "conversation:")
    @@ ("User:" :> "user:")
    @@ ("Assistant:" :> "assistant:")
    @@ ("I'm your premium assistant" :> "i'm your premium assistant")
    @@ ("Ask me anything -- choose a personality from the sidebar" :> "ask me anything -- choose a personality from the sidebar")
    @@ ("Try '/help' to see commands" :> "try '/help' to see commands")
    @@ ("**Pro Commands**" :> "**pro commands**")
    @@ ("Conversation cleared (session)" :> "conversation cleared (session)")
    @@ ("[clock] Current time:" :> "[clock] current time:")
    @@ ("Monday, November 02, 2026" :> "monday, november 02, 2026")
    @@ ("Tuesday, November 03, 2026" :> "tuesday, november 03, 2026")
    @@ ("[sparkles] Premium Text+Voice ChatBot -- Gemini-powered (optional)" :> "[sparkles] premium text+voice chatbot -- gemini-powered (optional)")
    @@ ("Features: personalities, smart read, persistent memory" :> "features: personalities, smart read, persistent memory")
    @@ ("Unknown command" :> "unknown command")
    @@ ("Try /help" :> "try /help")
    @@ ("Hi -- I'm offline right now, but I can still answer a few simple questions" :> "hi -- i'm offline right now, but i can still answer a few simple questions")
    @@ ("Try asking 'time' or 'date'" :> "try asking 'time' or 'date'")
    @@ ("I can't fetch external data offline, but your system time is available locally" :> "i can't fetch external data offline, but your system time is available locally")
    @@ ("Why did the programmer quit his job" :> "why did the programmer quit his job")
    @@ ("Because he didn't get arrays (a raise)" :> "because he didn't get arrays (a raise)")
    @@ ("Sorry -- I can't reach Gemini now" :> "sorry -- i can't reach gemini now")
    @@ ("Try again later or enable offline-friendly prompts" :> "try again later or enable offline-friendly prompts")
    @@ ("[warning] Gemini error:" :> "[warning] gemini error:")
    @@ ("(Falling back offline" :> "(falling back offline")

LowerTok(c) == IF c \in DOMAIN LowerTable THEN LowerTable[c] ELSE c

lower(s) == [i \in DOMAIN s |-> LowerTok(s[i])]

\* The lower-case tokens that hold the keyword.
Holding(keyword) ==
    CASE keyword = "time" ->
             {"time", "/time", "- /time -- current time", "[clock] current time:",
              "try asking 'time' or 'date'",
              "i can't fetch external data offline, but your system time is available locally"}
      [] keyword = "date" ->
             {"date", "/date", "- /date -- current date", "try asking 'time' or 'date'"}
      [] keyword = "joke" -> {"joke"}
      [] OTHER -> {}

\* keyword in s
contains(s, keyword) == \E i \in DOMAIN s : s[i] \in Holding(keyword)

\* The tokens that begin with "/".
SlashTokens == {"/", "/help", "/clear", "/time", "/date", "/about", "/DATE", "/foo"}

\* The command test done by the command's name instead of its first character.
startswith_known(s) ==
    lower(s) \in {<<"/help">>, <<"/clear">>, <<"/time">>, <<"/date">>, <<"/about">>}

\* s.startswith("/")
startswith_slash(s) == s # <<>> /\ s[1] \in SlashTokens

-----------------------------------------------------------------------------
(* The clock: datetime.now() and its formats *)

\* strftime("%H:%M:%S")
HMS == <<"23:59:59", "00:00:00", "00:00:01", "00:00:02", "00:00:03", "00:00:04">>

\* strftime("%A, %B %d, %Y")
LongDate(t) ==
    IF t = 0 THEN "Monday, November 02, 2026" ELSE "Tuesday, November 03, 2026"

\* timestamp(): strftime("%Y-%m-%d %H:%M:%S") names the second, and nothing
\* reads the string back; the model keeps the second it names.
timestamp(t) == t

-----------------------------------------------------------------------------
(* Messages: (role, text, time, meta) *)

\* meta = {}
EmptyMeta == [present |-> FALSE, full |-> <<>>, remainder |-> None]

\* meta = {"full": full, "remainder": remainder}
Meta(full, remainder) == [present |-> TRUE, full |-> full, remainder |-> remainder]

Message(role, txt, t, meta) ==
    [py |-> "tuple", role |-> role, text |-> txt, time |-> t, meta |-> meta]

-----------------------------------------------------------------------------
(* Persistent memory: memory.json *)

MAX_MEMORY_MESSAGES == 500

NoFile == [state |-> "absent", data |-> <<>>]

\* json.dump followed by json.load turns a tuple into a list.
json_message(m) == [m EXCEPT !.py = "list"]

\* mem[:MAX_MEMORY_MESSAGES]: the leading entries instead of the trailing.
slice_leading(mem) ==
    IF Len(mem) <= MAX_MEMORY_MESSAGES THEN mem
    ELSE SubSeq(mem, 1, MAX_MEMORY_MESSAGES)

\* mem[-MAX_MEMORY_MESSAGES:]
slice_trailing(mem) ==
    IF Len(mem) <= MAX_MEMORY_MESSAGES THEN mem
    ELSE SubSeq(mem, Len(mem) - MAX_MEMORY_MESSAGES + 1, Len(mem))

json_dump(mem) == [i \in DOMAIN mem |-> json_message(mem[i])]

load_memory(f) == IF f.state = "json" THEN f.data ELSE <<>>

\* What a call of save_memory can do to the file: write it, fail to open it
\* (the file stays as it was), or fail after open(..., "w") truncated it.
SaveOutcomes == {"written", "open_failed", "dump_failed"}

save_memory(mem, f, outcome) ==
    CASE outcome = "written" ->
             [state |-> "json", data |-> json_dump(slice_trailing(mem))]
      [] outcome = "open_failed" -> f
      [] outcome = "dump_failed" -> [state |-> "broken", data |-> <<>>]

-----------------------------------------------------------------------------
(* offline_fallback and generate_gemini_answer *)

Greetings == {<<"hi">>, <<"hello">>, <<"hey">>}

OfflineGreeting ==
    <<"Hi -- I'm offline right now, but I can still answer a few simple questions",
      ".", " ", "Try asking 'time' or 'date'", ".">>

OfflineTime ==
    <<"I can't fetch external data offline, but your system time is available locally",
      ".">>

OfflineJoke ==
    <<"Why did the programmer quit his job", "?", " ",
      "Because he didn't get arrays (a raise)", ".">>

OfflineSorry ==
    <<"Sorry -- I can't reach Gemini now", ".", " ",
      "Try again later or enable offline-friendly prompts", ".">>

offline_fallback(prompt, t) ==
    LET p == lower(strip(prompt))
    IN  IF p \in Greetings THEN OfflineGreeting
        ELSE IF contains(p, "time") THEN OfflineTime
        ELSE IF contains(p, "date") THEN <<LongDate(t)>>
        ELSE IF contains(p, "joke") THEN OfflineJoke
        ELSE OfflineSorry

\* f"[warning] Gemini error: {e}. (Falling back offline.)\n\n"
GeminiError(e) ==
    <<"[warning] Gemini error:", " ">> \o e
        \o <<".", " ", "(Falling back offline", ".", ")", "\n", "\n">>

\* What the Gemini SDK does in one call: the import failed (gemini_available
\* is False), the call raises e, or it returns a text.
Unavailable == [kind |-> "unavailable", text |-> <<>>]

Raises(e) == [kind |-> "raises", text |-> e]

Returns(answer) == [kind |-> "returns", text |-> answer]

\* The except branch returning the error text without the offline fallback.
generate_gemini_answer_bare(prompt, gemini, t) ==
    CASE gemini.kind = "unavailable" -> offline_fallback(prompt, t)
      [] gemini.kind = "returns" -> gemini.text
      [] gemini.kind = "raises" -> GeminiError(gemini.text)

generate_gemini_answer(prompt, gemini, t) ==
    CASE gemini.kind = "unavailable" -> offline_fallback(prompt, t)
      [] gemini.kind = "returns" -> gemini.text
      [] gemini.kind = "raises" -> GeminiError(gemini.text) \o offline_fallback(prompt, t)

-----------------------------------------------------------------------------
(* handle_command *)

Welcome ==
    <<"Hello", "!", " ", "I'm your premium assistant", ".", " ",
      "Ask me anything -- choose a personality from the sidebar", ".", " ",
      "Try '/help' to see commands", ".">>

HelpText ==
    <<"\n", "**Pro Commands**",
      "\n", "- /help -- show this help",
      "\n", "- /clear -- clear conversation (session)",
      "\n", "- /time -- current time",
      "\n", "- /date -- current date",
      "\n", "- /about -- about this bot", "\n">>

ClearedText == <<"Conversation cleared (session)", ".">>

AboutText ==
    <<"[sparkles] Premium Text+Voice ChatBot -- Gemini-powered (optional)", ".", " ",
      "Features: personalities, smart read, persistent memory", ".">>

UnknownText == <<"Unknown command", ".", " ", "Try /help", ".">>

\* handle_command without "st.session_state.chat = []" under "/clear".
handle_command_keep(cmd, log, t) ==
    LET c == lower(strip(cmd))
        Bot(txt) == Some(Message("bot", txt, timestamp(t), EmptyMeta))
    IN  IF c = <<"/help">> THEN [result |-> Bot(HelpText), chat |-> log]
        ELSE IF c = <<"/clear">> THEN [result |-> Bot(ClearedText), chat |-> log]
        ELSE IF c = <<"/time">>
        THEN [result |-> Bot(<<"[clock] Current time:", " ", HMS[t + 1]>>), chat |-> log]
        ELSE IF c = <<"/date">>
        THEN [result |-> Bot(<<"[calendar]", " ", LongDate(t)>>), chat |-> log]
        ELSE IF c = <<"/about">> THEN [result |-> Bot(AboutText), chat |-> log]
        ELSE [result |-> None, chat |-> log]

\* handle_command comparing the command as typed: cmd.strip() without lower().
handle_command_cased(cmd, log, t) ==
    LET c == strip(cmd)
        Bot(txt) == Some(Message("bot", txt, timestamp(t), EmptyMeta))
    IN  IF c = <<"/help">> THEN [result |-> Bot(HelpText), chat |-> log]
        ELSE IF c = <<"/clear">> THEN [result |-> Bot(ClearedText), chat |-> <<>>]
        ELSE IF c = <<"/time">>
        THEN [result |-> Bot(<<"[clock] Current time:", " ", HMS[t + 1]>>), chat |-> log]
        ELSE IF c = <<"/date">>
        THEN [result |-> Bot(<<"[calendar]", " ", LongDate(t)>>), chat |-> log]
        ELSE IF c = <<"/about">> THEN [result |-> Bot(AboutText), chat |-> log]
        ELSE [result |-> None, chat |-> log]

\* The value handle_command returns (None when no command matches) and the
\* log it leaves in st.session_state.chat.
handle_command(cmd, log, t) ==
    LET c == lower(strip(cmd))
        Bot(txt) == Some(Message("bot", txt, timestamp(t), EmptyMeta))
    IN  IF c = <<"/help">> THEN [result |-> Bot(HelpText), chat |-> log]
        ELSE IF c = <<"/clear">> THEN [result |-> Bot(ClearedText), chat |-> <<>>]
        ELSE IF c = <<"/time">>
        THEN [result |-> Bot(<<"[clock] Current time:", " ", HMS[t + 1]>>), chat |-> log]
        ELSE IF c = <<"/date">>
        THEN [result |-> Bot(<<"[calendar]", " ", LongDate(t)>>), chat |-> log]
        ELSE IF c = <<"/about">> THEN [result |-> Bot(AboutText), chat |-> log]
        ELSE [result |-> None, chat |-> log]

-----------------------------------------------------------------------------
(* system_prompt_for_mood and build_context_prompt *)

Moods == {"Friendly", "Formal", "Playful", "Sarcastic", "Teacher"}

system_prompt_for_mood(m) ==
    LET base == <<"You are a helpful assistant", ".">>
    IN  IF m = "Formal"
        THEN base \o <<" ", "Answer politely, concisely, and formally", ".">>
        ELSE IF m = "Playful"
        THEN base \o <<" ", "Be playful, use light humor and friendly tone", ".">>
        ELSE IF m = "Sarcastic"
        THEN base \o <<" ", "Use mild sarcasm and witty lines while staying helpful", ".">>
        ELSE IF m = "Teacher"
        THEN base \o <<" ", "Explain clearly with examples and simple language", ".">>
        ELSE base \o <<" ", "Be friendly, clear, and encouraging", ".">>

\* log[-n:]
last_entries(log, n) ==
    IF Len(log) <= n THEN log ELSE SubSeq(log, Len(log) - n + 1, Len(log))

\* f"{role_label}: {text}"
convo_line(m) ==
    (IF m.role = "user" THEN <<"User:", " ">> ELSE <<"Assistant:", " ">>) \o m.text

\* The window taken as st.session_state.chat[-memory_window:].
build_context_prompt_short(user_msg, memory_window, log, m, name) ==
    LET recent == last_entries(log, memory_window)
        convo == [i \in DOMAIN recent |-> convo_line(recent[i])]
        convo_text == join(<<"\n">>, convo)
        system_inst ==
            system_prompt_for_mood(m) \o
            (IF name # <<>>
             THEN <<" ", "Address the user as", " ">> \o name
                      \o <<" ", "when appropriate", ".">>
             ELSE <<>>)
    IN  system_inst \o <<"\n", "Conversation:", "\n">> \o convo_text
            \o <<"\n", "User:", " ">> \o user_msg \o <<"\n", "Assistant:">>

build_context_prompt(user_msg, memory_window, log, m, name) ==
    LET recent == last_entries(log, memory_window * 1 + 1)
        convo == [i \in DOMAIN recent |-> convo_line(recent[i])]
        convo_text == join(<<"\n">>, convo)
        system_inst ==
            system_prompt_for_mood(m) \o
            (IF name # <<>>
             THEN <<" ", "Address the user as", " ">> \o name
                      \o <<" ", "when appropriate", ".">>
             ELSE <<>>)
    IN  system_inst \o <<"\n", "Conversation:", "\n">> \o convo_text
            \o <<"\n", "User:", " ">> \o user_msg \o <<"\n", "Assistant:">>

-----------------------------------------------------------------------------
(* The pieces of one run of the script *)

\* What a call of speak can do: play the text, or raise inside pyttsx3.
SpeakOutcomes == {"spoken", "tts_failed"}

\* The events of speak(...) under "if voice_on".
speak(voice, tts) ==
    IF ~voice THEN <<>>
    ELSE IF tts = "spoken" THEN <<"speak">>
    ELSE <<"speak", "tts_warning">>

\* The events of a call of save_memory.
save_events(disk) == IF disk = "written" THEN <<"save">> ELSE <<"save", "save_error">>

\* The model branch calling save_memory before speak.
model_path_events_saved_first(voice, tts, disk) ==
    <<"append_user", "generate", "append_bot">>
        \o save_events(disk) \o speak(voice, tts) \o <<"rerun">>

\* What the model branch does, in the order of its statements: the user
\* message, the model call, the bot message, speak, save_memory, the rerun.
model_path_events(voice, tts, disk) ==
    <<"append_user", "generate", "append_bot">>
        \o speak(voice, tts) \o save_events(disk) \o <<"rerun">>

\* "if not st.session_state.chat": the welcome message.
ensure_welcome(log, t) ==
    IF log = <<>>
    THEN <<Message("bot", Welcome, timestamp(t), EmptyMeta)>>
    ELSE log

\* msg = user_input without the strip.
raw_input(user_input) == user_input

\* msg = user_input.strip()
trimmed_input(user_input) == strip(user_input)

\* The user message the send flow appends.
user_message(msg, t) == Message("user", msg, timestamp(t), EmptyMeta)

\* The command branch: the log after handle_command ran on the log that holds
\* the user message and its result, or the unknown-command message, was
\* appended.
command_path(msg, log, t) ==
    LET h == handle_command(msg, log, t)
        bot == IF h.result # None
               THEN h.result[1]
               ELSE Message("bot", UnknownText, timestamp(t), EmptyMeta)
    IN  Append(h.chat, bot)

\* Smart trim: what is displayed of raw_answer, and the remainder.
present(raw_answer, trim) ==
    IF trim
    THEN smart_trim_text(raw_answer, MAX_SENTENCES)
    ELSE [displayed |-> raw_answer, remainder |-> None]

\* The bot message of the model branch.
bot_message(raw_answer, trim, t) ==
    LET shown == present(raw_answer, trim)
    IN  Message("bot", shown.displayed, timestamp(t),
                Meta(raw_answer, shown.remainder))

\* "Continue reading" is shown when the last message is a bot message whose
\* meta holds a remainder.
can_continue(log) ==
    /\ log # <<>>
    /\ log[Len(log)].role = "bot"
    /\ log[Len(log)].meta.present
    /\ Truthy(log[Len(log)].meta.remainder)

\* The continuation keeping the remainder it has just shown.
continuation_keep(last_meta, t) ==
    Message("bot", last_meta.remainder[1], timestamp(t),
            Meta(last_meta["full"], last_meta.remainder))

\* The message a click on "Continue reading" appends.
continuation(last_meta, t) ==
    Message("bot", last_meta.remainder[1], timestamp(t), Meta(last_meta["full"], None))

\* The click rewriting the message it continues: its remainder is set to None.
continue_log_consume(log, t) ==
    Append([log EXCEPT ![Len(log)].meta.remainder = None],
           continuation(log[Len(log)].meta, t))

\* The log after a click on "Continue reading".
continue_log(log, t) == Append(log, continuation(log[Len(log)].meta, t))

\* The dynamic suggestions the model branch shows for msg.
suggestions(msg) ==
    LET low == lower(msg)
    IN  IF contains(low, "weather")
        THEN <<<<"Tomorrow's forecast">>, <<"Weekly summary">>, <<"Humidity details">>>>
        ELSE IF contains(low, "joke") \/ contains(low, "fun")
        THEN <<<<"Another", " ", "joke">>, <<"Short pun">>, <<"Clean", " ", "joke">>>>
        ELSE <<<<"Explain simply">>, <<"Give an example">>, <<"Summarize in 2 lines">>>>

\* The record of the first run of a session.
StartRecord ==
    [kind |-> "start", input |-> <<>>, gemini |-> "none", prompt |-> <<>>,
     events |-> <<>>, after_failed_save |-> FALSE, after_clear |-> FALSE]

\* The record of a run: its kind, what it was given and what it did, whether
\* it found the session with a save_memory call that had failed and no call
\* since, and whether it found the store emptied by "Clear persistent memory
\* (all)" and no call of save_memory since.
RunRecord(kind, input, gemini, prompt, events) ==
    [kind |-> kind, input |-> input, gemini |-> gemini, prompt |-> prompt,
     events |-> events,
     after_failed_save |->
         /\ kind # "start"
         /\ \/ \E i \in DOMAIN run.events : run.events[i] = "save_error"
            \/ /\ run.after_failed_save
               /\ \A i \in DOMAIN run.events : run.events[i] # "save",
     after_clear |->
         /\ kind # "start"
         /\ \/ /\ run.kind = "clear_memory"
               /\ \A i \in DOMAIN run.events : run.events[i] # "save_error"
            \/ /\ run.after_clear
               /\ \A i \in DOMAIN run.events : run.events[i] # "save"]

-----------------------------------------------------------------------------
(* The inputs of the model *)

\* What the user types into the text box.
Inputs ==
    {<<>>, <<" ">>, <<"hi">>, <<" ", "Hi", "\n">>, <<"tell me a", " ", "joke">>,
     <<"/help">>, <<"/clear">>, <<"/time">>, <<"/date">>, <<"/about">>,
     <<" ", "/DATE", " ">>, <<"/foo">>, <<"/help", " ", "me">>}

\* What the user types into "Your name (optional)".
Names == {<<>>, <<"Sam">>}

ShortAnswer == <<"Sure", ".">>

LongAnswer == <<"One", ".", " ", "Two", ".", "\n", "Three", "!", " ", "Four", "?">>

GeminiOutcomes ==
    {Unavailable, Raises(<<"API key not valid">>), Returns(ShortAnswer),
     Returns(LongAnswer)}

\* memory.json as an earlier session left it: that session started without a
\* file, asked for a joke and got LongAnswer with Smart Read on.
EarlierStamp == timestamp(-1)

EarlierLog ==
    <<Message("bot", Welcome, EarlierStamp, EmptyMeta),
      Message("user", <<"tell me a", " ", "joke">>, EarlierStamp, EmptyMeta),
      Message("bot", smart_trim_text(LongAnswer, MAX_SENTENCES).displayed,
              EarlierStamp,
              Meta(LongAnswer, smart_trim_text(LongAnswer, MAX_SENTENCES).remainder))>>

InitialFiles == {NoFile, save_memory(EarlierLog, NoFile, "written")}

NotTrimmed == [done |-> FALSE, displayed |-> <<>>, remainder |-> None]

-----------------------------------------------------------------------------
(* Init and the actions *)

settings == <<username, mood, voice_on, trim_long_reads>>

trimming == <<text, trimmed>>

\* The first run of the script, with memory.json one of files.
InitWith(files) ==
    /\ file \in files
    /\ now = 0
    /\ chat = ensure_welcome(load_memory(file), now)
    /\ username = <<>>
    /\ mood = "Friendly"
    /\ voice_on = FALSE
    /\ trim_long_reads = TRUE
    /\ last_response = None
    /\ run = StartRecord
    /\ text = <<>>
    /\ trimmed = NotTrimmed

Init == InitWith(InitialFiles)

\* A run of the script takes a second.
Elapse ==
    /\ now < MaxClock
    /\ now' = now + 1

\* The page is opened again: the first run of the script in a new session,
\* with an empty st.session_state.
NewSession ==
    /\ Elapse
    /\ chat' = ensure_welcome(load_memory(file), now)
    /\ username' = <<>>
    /\ mood' = "Friendly"
    /\ voice_on' = FALSE
    /\ trim_long_reads' = TRUE
    /\ last_response' = None
    /\ run' = RunRecord("start", <<>>, "none", <<>>, <<>>)
    /\ UNCHANGED <<file, trimming>>

\* "Your name (optional)": an empty name leaves st.session_state["username"].
SetUsername(name) ==
    /\ Elapse
    /\ username' = IF name # <<>> THEN name ELSE username
    /\ run' = RunRecord("settings", <<>>, "none", <<>>, <<>>)
    /\ UNCHANGED <<chat, file, mood, voice_on, trim_long_reads, last_response,
                   trimming>>

SetMood(m) ==
    /\ Elapse
    /\ mood' = m
    /\ run' = RunRecord("settings", <<>>, "none", <<>>, <<>>)
    /\ UNCHANGED <<chat, file, username, voice_on, trim_long_reads, last_response,
                   trimming>>

SetVoice(b) ==
    /\ Elapse
    /\ voice_on' = b
    /\ run' = RunRecord("settings", <<>>, "none", <<>>, <<>>)
    /\ UNCHANGED <<chat, file, username, mood, trim_long_reads, last_response,
                   trimming>>

SetSmartRead(b) ==
    /\ Elapse
    /\ trim_long_reads' = b
    /\ run' = RunRecord("settings", <<>>, "none", <<>>, <<>>)
    /\ UNCHANGED <<chat, file, username, mood, voice_on, last_response,
                   trimming>>

\* "Clear persistent memory (all)" emptying the log of the session as well.
ClearMemory_session ==
    /\ Elapse
    /\ \E disk \in SaveOutcomes :
           /\ file' = save_memory(<<>>, file, disk)
           /\ run' = RunRecord("clear_memory", <<>>, "none", <<>>, save_events(disk))
    /\ chat' = ensure_welcome(<<>>, now)
    /\ UNCHANGED <<settings, last_response, trimming>>

\* "Clear persistent memory (all)"
ClearMemory ==
    /\ Elapse
    /\ \E disk \in SaveOutcomes :
           /\ file' = save_memory(<<>>, file, disk)
           /\ run' = RunRecord("clear_memory", <<>>, "none", <<>>, save_events(disk))
    /\ UNCHANGED <<chat, settings, last_response, trimming>>

\* A quick action button: timestamp is called before the script defines it.
QuickAction ==
    /\ Elapse
    /\ run' = RunRecord("quick", <<>>, "none", <<>>, <<"NameError">>)
    /\ UNCHANGED <<chat, file, settings, last_response, trimming>>

\* speak is called, and can fail, only with voice output on.
Spoken == IF voice_on THEN SpeakOutcomes ELSE {"spoken"}

\* The main send flow for a click on Send with user_input in the text box,
\* and the run that st.experimental_rerun() starts.
Send(user_input) ==
    /\ Elapse
    /\ UNCHANGED <<settings, trimming>>
    /\ LET msg == trimmed_input(user_input)
           log1 == Append(chat, user_message(msg, now))
       IN  IF msg = <<>>
           THEN /\ run' = RunRecord("send", user_input, "none", <<>>, <<"warning">>)
                /\ UNCHANGED <<chat, file, last_response>>
           ELSE IF startswith_slash(msg)
           THEN LET log2 == command_path(msg, log1, now)
                IN  \E disk \in SaveOutcomes :
                        /\ chat' = ensure_welcome(log2, now)
                        /\ file' = save_memory(log2, file, disk)
                        /\ run' = RunRecord("send", user_input, "none", <<>>,
                                      <<"append_user", "handle_command", "append_bot">>
                                          \o save_events(disk) \o <<"rerun">>)
                        /\ UNCHANGED last_response
           ELSE LET prompt == build_context_prompt(msg, 6, log1, mood, username)
                IN  \E gemini \in GeminiOutcomes :
                        LET raw_answer == generate_gemini_answer(prompt, gemini, now)
                            log2 == Append(log1, bot_message(raw_answer,
                                                             trim_long_reads, now))
                        IN  \E tts \in Spoken, disk \in SaveOutcomes :
                                /\ chat' = ensure_welcome(log2, now)
                                /\ last_response' = Some(raw_answer)
                                /\ file' = save_memory(log2, file, disk)
                                /\ run' = RunRecord("send", user_input, gemini.kind,
                                              prompt,
                                              model_path_events(voice_on, tts, disk))

\* "Continue reading" going back to the stored log when its save failed.
ContinueReading_reload ==
    /\ Elapse
    /\ UNCHANGED <<settings, last_response, trimming>>
    /\ IF can_continue(chat)
       THEN LET log2 == continue_log(chat, now)
            IN  \E tts \in Spoken, disk \in SaveOutcomes :
                    /\ file' = save_memory(log2, file, disk)
                    /\ chat' = IF disk = "written" THEN ensure_welcome(log2, now)
                               ELSE ensure_welcome(load_memory(file'), now)
                    /\ run' = RunRecord("continue", <<>>, "none", <<>>,
                                  <<"append_bot">> \o speak(voice_on, tts)
                                      \o save_events(disk) \o <<"rerun">>)
       ELSE /\ run' = RunRecord("continue", <<>>, "none", <<>>, <<>>)
            /\ UNCHANGED <<chat, file>>

\* "Continue reading" with a speak that lets the exception of the engine out:
\* the run ends at the speak call, before save_memory and the rerun.
ContinueReading_speak_raises ==
    /\ Elapse
    /\ UNCHANGED <<settings, last_response, trimming>>
    /\ IF can_continue(chat)
       THEN LET log2 == continue_log(chat, now)
            IN  \E tts \in Spoken, disk \in SaveOutcomes :
                    /\ chat' = ensure_welcome(log2, now)
                    /\ file' = IF tts = "tts_failed" THEN file
                               ELSE save_memory(log2, file, disk)
                    /\ run' = RunRecord("continue", <<>>, "none", <<>>,
                                  IF tts = "tts_failed"
                                  THEN <<"append_bot">> \o speak(voice_on, tts)
                                  ELSE <<"append_bot">> \o speak(voice_on, tts)
                                           \o save_events(disk) \o <<"rerun">>)
       ELSE /\ run' = RunRecord("continue", <<>>, "none", <<>>, <<>>)
            /\ UNCHANGED <<chat, file>>

\* A click on "Continue reading" and the run that follows; without the button
\* the run does nothing.
ContinueReading ==
    /\ Elapse
    /\ UNCHANGED <<settings, last_response, trimming>>
    /\ IF can_continue(chat)
       THEN LET log2 == continue_log(chat, now)
            IN  \E tts \in Spoken, disk \in SaveOutcomes :
                    /\ chat' = ensure_welcome(log2, now)
                    /\ file' = save_memory(log2, file, disk)
                    /\ run' = RunRecord("continue", <<>>, "none", <<>>,
                                  <<"append_bot">> \o speak(voice_on, tts)
                                      \o save_events(disk) \o <<"rerun">>)
       ELSE /\ run' = RunRecord("continue", <<>>, "none", <<>>, <<>>)
            /\ UNCHANGED <<chat, file>>

\* A click on the i-th suggestion button that the last run, a turn of the
\* model branch, has shown.  cols[i].button(s) is called only inside
\* "if send and user_input is not None", and Send is not clicked in the run
\* this click starts: the run skips the main send flow, and the appends, the
\* model call, speak and save_memory under the button are not reached.
SelectSuggestion(i) ==
    /\ Elapse
    /\ run.kind = "send"
    /\ run.gemini # "none"
    /\ run' = RunRecord("suggest", suggestions(strip(run.input))[i], "none", <<>>, <<>>)
    /\ UNCHANGED <<chat, file, settings, last_response, trimming>>

Next ==
    \/ NewSession
    \/ \E name \in Names : SetUsername(name)
    \/ \E m \in Moods : SetMood(m)
    \/ \E b \in BOOLEAN : SetVoice(b)
    \/ \E b \in BOOLEAN : SetSmartRead(b)
    \/ ClearMemory
    \/ QuickAction
    \/ \E user_input \in Inputs : Send(user_input)
    \/ ContinueReading
    \/ \E i \in 1..3 : SelectSuggestion(i)

Spec == Init /\ [][Next]_vars

-----------------------------------------------------------------------------
(* Sessions that start from a longer memory.json *)

Exchange == <<Message("user", <<"hi">>, EarlierStamp, EmptyMeta),
              Message("bot", ShortAnswer, EarlierStamp, Meta(ShortAnswer, None))>>

\* Logs of 5 and 6 entries as earlier sessions left them: the welcome and
\* two exchanges, or EarlierLog continued by "Continue reading" and followed
\* by an exchange.
LongerLogs ==
    {<<Message("bot", Welcome, EarlierStamp, EmptyMeta)>> \o Exchange \o Exchange,
     continue_log(EarlierLog, EarlierStamp) \o Exchange}

LongerFiles == {save_memory(log, NoFile, "written") : log \in LongerLogs}

WindowInit == InitWith(LongerFiles)

\* What is typed in these sessions: a message, the same with whitespace
\* around it, and the command that empties the log.
WindowInputs == {<<"hi">>, <<" ", "Hi", "\n">>, <<"/clear">>}

\* The runs that change the log or what the prompt is composed from.
WindowNext ==
    \/ \E name \in Names : SetUsername(name)
    \/ \E m \in Moods : SetMood(m)
    \/ \E user_input \in WindowInputs : Send(user_input)
    \/ ContinueReading

WindowSpec == WindowInit /\ [][WindowNext]_vars

-----------------------------------------------------------------------------
(* smart_trim_text on its own: every text of up to MaxTextLen tokens *)

MaxTextLen == 8

TrimAlphabet == {"a", ".", " ", "\n"}

Texts == UNION {[1..n -> TrimAlphabet] : n \in 0..MaxTextLen}

TrimInit ==
    /\ text \in Texts
    /\ trimmed = NotTrimmed
    /\ file = NoFile
    /\ now = 0
    /\ chat = ensure_welcome(load_memory(file), now)
    /\ username = <<>>
    /\ mood = "Friendly"
    /\ voice_on = FALSE
    /\ trim_long_reads = TRUE
    /\ last_response = None
    /\ run = StartRecord

ApplyTrim ==
    /\ ~trimmed.done
    /\ LET r == smart_trim_text(text, MAX_SENTENCES)
       IN  trimmed' = [done |-> TRUE, displayed |-> r.displayed,
                       remainder |-> r.remainder]
    /\ UNCHANGED <<chat, file, settings, last_response, now, run, text>>

TrimNext == ApplyTrim

TrimSpec == TrimInit /\ [][TrimNext]_vars

-----------------------------------------------------------------------------
(* save_memory on its own: logs around MAX_MEMORY_MESSAGES entries *)

\* The logs saved are up to Overshoot entries longer than the cap.
Overshoot == 3

LogLengths ==
    (0..Overshoot) \cup ((MAX_MEMORY_MESSAGES - 2)..(MAX_MEMORY_MESSAGES + Overshoot))

\* A log of n messages, the i-th written in second i.
LogOf(n) ==
    [i \in 1..n |->
        Message(IF i % 2 = 1 THEN "user" ELSE "bot", <<"hi">>, timestamp(i), EmptyMeta)]

SaveInit ==
    /\ chat = LogOf(1)
    /\ file = NoFile
    /\ now = 0
    /\ username = <<>>
    /\ mood = "Friendly"
    /\ voice_on = FALSE
    /\ trim_long_reads = TRUE
    /\ last_response = None
    /\ run = StartRecord
    /\ text = <<>>
    /\ trimmed = NotTrimmed

\* The session's log has grown (or was cleared) to n entries and is saved.
SaveLog(n, disk) ==
    /\ chat' = LogOf(n)
    /\ file' = save_memory(chat', file, disk)
    /\ run' = RunRecord("save", <<>>, "none", <<>>, save_events(disk))
    /\ UNCHANGED <<settings, last_response, now, trimming>>

SaveNext == \E n \in LogLengths, disk \in SaveOutcomes : SaveLog(n, disk)

SaveSpec == SaveInit /\ [][SaveNext]_vars

-----------------------------------------------------------------------------
(* What the claims speak of *)

Last(log) == log[Len(log)]

IsPrefix(a, b) == Len(a) <= Len(b) /\ SubSeq(b, 1, Len(a)) = a

Events == {run.events[i] : i \in DOMAIN run.events}

\* The input is empty or whitespace only.
Blank(input) == \A i \in DOMAIN input : input[i] \in Whitespace

\* The first character of the input that is not whitespace is "/".
Slashed(input) ==
    \E i \in DOMAIN input :
        /\ input[i] \in SlashTokens
        /\ \A j \in 1..(i - 1) : input[j] \in Whitespace

\* The last run called save_memory and the call wrote the file.
Wrote == "save" \in Events /\ "save_error" \notin Events

\* The same message, as a tuple in memory or as a list read back from JSON.
SameMessage(a, b) ==
    a.role = b.role /\ a.text = b.text /\ a.time = b.time /\ a.meta = b.meta

\* load() returns the trailing MAX_MEMORY_MESSAGES entries of log, or all of
\* them when they are fewer.
LoadReturnsTrailing(log) ==
    LET n == Len(log)
        k == IF n <= MAX_MEMORY_MESSAGES THEN n ELSE MAX_MEMORY_MESSAGES
    IN  /\ Len(load_memory(file)) = k
        /\ \A i \in 1..k : SameMessage(load_memory(file)[i], log[n - k + i])

-----------------------------------------------------------------------------
(* C1 *)

\* C1, as the spec states it: after a turn whose input is "/clear", the log is
\* empty and load() returns an empty sequence.
C1_ClearLeavesNothing ==
    (run.kind = "send" /\ run.input = <<"/clear">>) =>
        (chat = <<>> /\ load_memory(file) = <<>>)

\* C1, amended: after a turn whose input is "/clear", the log holds exactly
\* one entry, the bot message "Conversation cleared (session)." with empty
\* metadata; when the save of that turn wrote the file, load() returns that
\* one entry.
C1_ClearLeavesConfirmation ==
    (run.kind = "send" /\ run.input = <<"/clear">>) =>
        /\ Len(chat) = 1
        /\ chat[1].role = "bot"
        /\ chat[1].text = ClearedText
        /\ chat[1].meta = EmptyMeta
        /\ "save" \in Events
        /\ Wrote => LoadReturnsTrailing(chat)

\* A "/clear" turn whose save wrote the file, in a session that had loaded an
\* earlier log.
C1_Witness ==
    /\ run.kind = "send"
    /\ run.input = <<"/clear">>
    /\ Wrote
    /\ file.state = "json"
    /\ Len(file.data) = 1
    /\ chat[1].time > 0

-----------------------------------------------------------------------------
(* C2 *)

\* The texts of the bot messages of the command path at second t.
CommandReplies(t) ==
    {HelpText, ClearedText, <<"[clock] Current time:", " ", HMS[t + 1]>>,
     <<"[calendar]", " ", LongDate(t)>>, AboutText, UnknownText}

\* C2: a turn whose input starts with "/", a known command or not, calls the
\* model zero times; it appends the user message and the command's bot
\* message (after "/clear" the bot message is all that is left), calls
\* save_memory on that log, which then holds it if the write succeeds, and
\* ends with the rerun.
C2_CommandPath ==
    [][(run'.kind = "send" /\ Slashed(run'.input)) =>
          /\ run'.gemini = "none"
          /\ run'.prompt = <<>>
          /\ "generate" \notin Events'
          /\ last_response' = last_response
          /\ Last(chat').role = "bot"
          /\ Last(chat').meta = EmptyMeta
          /\ Last(chat').text \in CommandReplies(now)
          /\ \/ chat' = <<Last(chat')>>
             \/ chat' = chat \o <<Message("user", strip(run'.input), now, EmptyMeta),
                                  Last(chat')>>
          /\ "save" \in Events'
          /\ Wrote' => LoadReturnsTrailing(chat)'
          /\ Last(run'.events) = "rerun"]_vars

\* A turn with the unknown command "/foo" that was answered and saved.
C2_Witness ==
    /\ run.kind = "send"
    /\ run.input = <<"/foo">>
    /\ Last(chat).text = UnknownText
    /\ Wrote

-----------------------------------------------------------------------------
(* C3 *)

\* The answers of offline_fallback at second t.
Fallbacks(t) == {OfflineGreeting, OfflineTime, <<LongDate(t)>>, OfflineJoke, OfflineSorry}

IsSuffix(a, b) == Len(a) <= Len(b) /\ SubSeq(b, Len(b) - Len(a) + 1, Len(b)) = a

\* C3: a turn whose input is no command, whatever the model does (returns,
\* is unavailable, raises), appends the user message and then exactly one bot
\* message, whose full text is the model's answer, an offline fallback, or the
\* error marker followed by an offline fallback; it calls save_memory on that
\* log, which then holds it if the write succeeds, and ends with the rerun.
C3_ModelPathCompletes ==
    [][(run'.kind = "send" /\ ~Blank(run'.input) /\ ~Slashed(run'.input)) =>
          /\ run'.gemini \in {"returns", "unavailable", "raises"}
          /\ Len(chat') = Len(chat) + 2
          /\ IsPrefix(chat, chat')
          /\ chat'[Len(chat) + 1] = Message("user", strip(run'.input), now, EmptyMeta)
          /\ Last(chat').role = "bot"
          /\ Last(chat').meta.present
          /\ last_response' = Some(Last(chat').meta["full"])
          /\ run'.gemini = "unavailable" => Last(chat').meta["full"] \in Fallbacks(now)
          /\ run'.gemini = "raises" =>
                 /\ Last(chat').meta["full"][1] = "[warning] Gemini error:"
                 /\ \E fb \in Fallbacks(now) : IsSuffix(fb, Last(chat').meta["full"])
          /\ "save" \in Events'
          /\ Wrote' => LoadReturnsTrailing(chat)'
          /\ Last(run'.events) = "rerun"]_vars

\* A turn in which the model raised, answered and saved.
C3_Witness ==
    /\ run.kind = "send"
    /\ run.gemini = "raises"
    /\ Last(chat).role = "bot"
    /\ Wrote

-----------------------------------------------------------------------------
(* C4 *)

\* C4: when the message is exactly a greeting (trimmed, in any case) and the
\* model is unavailable or raises, the text of the bot message starts with the
\* canned offline greeting.
C4_GreetingFallback ==
    (/\ run.kind = "send"
     /\ lower(strip(run.input)) \in Greetings
     /\ run.gemini \in {"unavailable", "raises"}) =>
        IsPrefix(OfflineGreeting, Last(chat).text)

-----------------------------------------------------------------------------
(* C5 *)

\* C5, as the spec states it: after every save call the store holds at most
\* MAX_MEMORY_MESSAGES entries, and they are the trailing entries of the log
\* passed to that call.
C5_StoreHoldsLastSave ==
    run.kind = "save" =>
        /\ Len(load_memory(file)) <= MAX_MEMORY_MESSAGES
        /\ LoadReturnsTrailing(chat)

\* C5, amended: the store never holds more than MAX_MEMORY_MESSAGES entries;
\* after a save call that wrote it, it holds the trailing MAX_MEMORY_MESSAGES
\* entries (all, if fewer) of the log passed to that call; a save call that
\* fails leaves the store as it was, or unreadable so that load() returns an
\* empty sequence.
C5_StoreHoldsLastWrite ==
    [][run'.kind = "save" =>
          /\ Len(file'.data) <= MAX_MEMORY_MESSAGES
          /\ IF Wrote'
             THEN LoadReturnsTrailing(chat)'
             ELSE file' = file \/ load_memory(file') = <<>>]_vars

\* A log longer than the cap was saved over a store that held another log.
C5_Witness ==
    /\ run.kind = "save"
    /\ Wrote
    /\ Len(chat) > MAX_MEMORY_MESSAGES
    /\ Len(file.data) = MAX_MEMORY_MESSAGES
    /\ file.data[1].time = Len(chat) - MAX_MEMORY_MESSAGES + 1

-----------------------------------------------------------------------------
(* C6 *)

\* The run is a turn of the "/clear" command.
ClearTurn(r) == r.kind = "send" /\ lower(strip(r.input)) = <<"/clear">>

\* C6: within a session, every run other than a "/clear" turn (a sent message,
\* another command, an unknown command, continue reading, a settings change,
\* the sidebar's clear of the store, a quick action) leaves the log it found
\* as a prefix of the log it leaves, each entry unchanged.  (A new session
\* starts with the log it loads from the store.)
C6_AppendOnly ==
    [][(run'.kind # "start" /\ ~ClearTurn(run')) =>
          /\ IsPrefix(chat, chat')
          /\ \A i \in DOMAIN chat : chat'[i] = chat[i]]_vars

\* "Continue reading" has appended the remainder, and the message it
\* continues still holds that remainder.
C6_Witness ==
    /\ run.kind = "continue"
    /\ run.events # <<>>
    /\ Len(chat) >= 2
    /\ chat[Len(chat) - 1].meta.remainder = Some(Last(chat).text)

-----------------------------------------------------------------------------
(* C7 *)

\* The last entry is a bot message with a remainder that is not null.
HasRemainder(log) ==
    /\ log # <<>>
    /\ Last(log).role = "bot"
    /\ Last(log).meta.present
    /\ Last(log).meta.remainder # None

\* C7: "continue reading" on a log whose last entry is a bot message with a
\* remainder appends exactly one bot message, with that remainder as text,
\* the same full_text and a null remainder, so that a second "continue
\* reading" finds no remainder; on any other log it changes neither the log
\* nor the store and calls nothing.
C7_ContinueReading ==
    [][run'.kind = "continue" =>
          IF HasRemainder(chat)
          THEN /\ Len(chat') = Len(chat) + 1
               /\ IsPrefix(chat, chat')
               /\ Last(chat').role = "bot"
               /\ Last(chat').text = Last(chat).meta.remainder[1]
               /\ Last(chat').meta.present
               /\ Last(chat').meta["full"] = Last(chat).meta["full"]
               /\ Last(chat').meta.remainder = None
               /\ ~HasRemainder(chat')
          ELSE /\ chat' = chat
               /\ file' = file
               /\ run'.events = <<>>]_vars

\* "Continue reading" was clicked twice on a trimmed answer: the first click
\* appended the remainder, the second did nothing.
C7_Witness ==
    /\ run.kind = "continue"
    /\ run.events = <<>>
    /\ Len(chat) >= 2
    /\ chat[Len(chat) - 1].meta.remainder = Some(Last(chat).text)
    /\ Last(chat).meta.present
    /\ Last(chat).meta.remainder = None

-----------------------------------------------------------------------------
(* C8 *)

\* C8: a Send with an empty or whitespace-only input changes neither the log,
\* the store, the last response nor the settings, and calls neither the
\* model, speak nor save_memory: the run only shows the warning.
C8_BlankInput ==
    [][(run'.kind = "send" /\ Blank(run'.input)) =>
          /\ chat' = chat
          /\ file' = file
          /\ last_response' = last_response
          /\ settings' = settings
          /\ run'.gemini = "none"
          /\ run'.events = <<"warning">>]_vars

\* A whitespace-only input was sent with voice output on.
C8_Witness ==
    /\ run.kind = "send"
    /\ run.input = <<" ">>
    /\ run.events = <<"warning">>
    /\ voice_on

-----------------------------------------------------------------------------
(* C9 *)

\* The sentences of a text: the pieces between the split points.
Sentences(t) == re_split(strip(t))

\* displayed ends with the marker " ...".
EndsWithMarker(d) == IsSuffix(Ellipsis, d)

WithoutMarker(d) == SubSeq(d, 1, Len(d) - Len(Ellipsis))

-----------------------------------------------------------------------------
(* C10 *)

\* C10: for a text of at most 3 sentences, the empty text among them, the
\* result is the text itself, unchanged, and a null remainder.
C10_ShortUnchanged ==
    (trimmed.done /\ Len(Sentences(text)) <= MAX_SENTENCES) =>
        /\ trimmed.displayed = text
        /\ trimmed.remainder = None

\* A text of exactly three sentences that starts with whitespace was trimmed.
C10_Witness ==
    /\ trimmed.done
    /\ Len(Sentences(text)) = MAX_SENTENCES
    /\ text # <<>>
    /\ text[1] \in Whitespace
    /\ trimmed.displayed = text

-----------------------------------------------------------------------------
(* C11 *)

\* The line of the conversation section for one entry of the log.
Labelled(m) == <<IF m.role = "user" THEN "User:" ELSE "Assistant:", " ">> \o m.text

\* The run is a turn of the model path: a sent input that is neither blank
\* nor a command.
ModelTurn(r) == r.kind = "send" /\ ~Blank(r.input) /\ ~Slashed(r.input)

\* C11: in a model-path turn for a typed message, the prompt is one line of
\* system instruction followed by "\nConversation:\n", the lines of the
\* trailing min(7, length) entries of the log that holds the user message just
\* appended, oldest first and that user message last, and then
\* "\nUser: {message}\nAssistant:".
C11_PromptWindow ==
    [][ModelTurn(run') =>
          LET msg == strip(run'.input)
              log1 == SubSeq(chat', 1, Len(chat') - 1)
              n == Len(log1)
              k == IF n < 7 THEN n ELSE 7
              window == SubSeq(log1, n - k + 1, n)
              section == join(<<"\n">>, [i \in 1..k |-> Labelled(window[i])])
              tail == <<"\n", "Conversation:", "\n">> \o section
                          \o <<"\n", "User:", " ">> \o msg \o <<"\n", "Assistant:">>
              head == SubSeq(run'.prompt, 1, Len(run'.prompt) - Len(tail))
          IN  /\ log1 = Append(chat, Message("user", msg, now, EmptyMeta))
              /\ Last(window) = Message("user", msg, now, EmptyMeta)
              /\ IsSuffix(tail, run'.prompt)
              /\ head # <<>>
              /\ \A i \in DOMAIN head : head[i] \notin {"\n", "Conversation:"}]_vars

\* A model-path turn on a log that held more than 7 entries once the user
\* message was appended.
C11_Witness ==
    /\ run.kind = "send"
    /\ run.prompt # <<>>
    /\ Len(chat) >= 9

-----------------------------------------------------------------------------
(* C12 *)

\* The text of the bot message for the trimmed, lower-cased input c at
\* second t.
ReplyFor(c, t) ==
    CASE c = <<"/help">> -> HelpText
      [] c = <<"/clear">> -> ClearedText
      [] c = <<"/time">> -> <<"[clock] Current time:", " ", HMS[t + 1]>>
      [] c = <<"/date">> -> <<"[calendar]", " ", LongDate(t)>>
      [] c = <<"/about">> -> AboutText
      [] OTHER -> UnknownText

\* C12: a sent input whose trimmed text starts with "/" is answered by the
\* trimmed, lower-cased input alone: with the reply of the command it equals
\* (and, for "/clear" only, on an emptied log), and with "Unknown command. Try
\* /help." when it equals none of the five; an input that does not start
\* with "/" never reaches the command handler.
C12_Dispatch ==
    [][run'.kind = "send" =>
          IF Slashed(run'.input)
          THEN LET c == lower(strip(run'.input))
               IN  /\ "handle_command" \in Events'
                   /\ Last(chat').role = "bot"
                   /\ Last(chat').text = ReplyFor(c, now)
                   /\ (Len(chat') = 1) <=> (c = <<"/clear">>)
          ELSE "handle_command" \notin Events']_vars

\* " /DATE " was sent and answered with the date.
C12_Witness ==
    /\ run.kind = "send"
    /\ run.input = <<" ", "/DATE", " ">>
    /\ Last(chat).text = <<"[calendar]", " ", LongDate(now - 1)>>
    /\ Len(chat) >= 3

-----------------------------------------------------------------------------
(* C13 *)

\* C13: a click on a suggestion runs the turn a typed message with the same
\* text would run: the suggestion is appended as a user message, the prompt is
\* composed with window size 6 from the log that holds it, and the bot message
\* appended after it carries meta {full, remainder} with its text trimmed as
\* the current Smart Read setting asks.
C13_SuggestionAsTyped ==
    [][run'.kind = "suggest" =>
          /\ Len(chat') = Len(chat) + 2
          /\ IsPrefix(chat, chat')
          /\ chat'[Len(chat) + 1] = Message("user", run'.input, now, EmptyMeta)
          /\ run'.prompt =
                 build_context_prompt(run'.input, 6,
                                      Append(chat, Message("user", run'.input, now,
                                                           EmptyMeta)),
                                      mood, username)
          /\ Last(chat').role = "bot"
          /\ Last(chat').meta.present
          /\ Last(chat').text =
                 present(Last(chat').meta["full"], trim_long_reads).displayed
          /\ Last(chat').meta.remainder =
                 present(Last(chat').meta["full"], trim_long_reads).remainder]_vars

-----------------------------------------------------------------------------
(* C14 *)

\* A message whose remainder is not null holds a full text, and its text is
\* the marker " ..." after leading sentences of the full text, fewer than all
\* of them.
RemainderSound(m) ==
    m.meta.remainder # None =>
        /\ m.meta.present
        /\ EndsWithMarker(m.text)
        /\ LET shown == Sentences(WithoutMarker(m.text))
               all == Sentences(m.meta["full"])
           IN  Len(shown) < Len(all) /\ IsPrefix(shown, all)

-----------------------------------------------------------------------------
(* C15 *)

\* The place of the first event e in the last run; 0 when the run has none.
Place(e) ==
    IF e \in Events THEN Min({i \in DOMAIN run.events : run.events[i] = e}) ELSE 0

Count(e) == Cardinality({i \in DOMAIN run.events : run.events[i] = e})

\* C15, as the spec states it: in a model-path turn with voice output on, the
\* bot message is appended, then the log is persisted, then speak is called.
C15_PersistThenNarrate ==
    (ModelTurn(run) /\ voice_on) =>
        /\ "speak" \in Events
        /\ Place("append_bot") < Place("save")
        /\ Place("save") < Place("speak")

\* C15, amended: in a model-path turn with voice output on, the bot message
\* is appended, then speak is called, once, and only after it has returned or
\* failed is the log, with the new bot message, persisted, once; the rerun
\* comes last.
C15_NarrateThenPersist ==
    (ModelTurn(run) /\ voice_on) =>
        /\ Count("append_bot") = 1 /\ Count("speak") = 1 /\ Count("save") = 1
        /\ Place("append_bot") < Place("speak")
        /\ Place("speak") < Place("save")
        /\ "tts_warning" \in Events => Place("tts_warning") < Place("save")
        /\ Last(run.events) = "rerun"
        /\ Last(chat).role = "bot"
        /\ Wrote => LoadReturnsTrailing(chat)

\* A model-path turn with voice output on in which speak failed and the save
\* wrote the store.
C15_Witness ==
    /\ ModelTurn(run)
    /\ voice_on
    /\ "tts_warning" \in Events
    /\ Wrote
    /\ Last(load_memory(file)).text = Last(chat).text

-----------------------------------------------------------------------------
(* C16 *)

\* The run is a turn of the command path: a sent input whose trimmed text
\* starts with "/".
CommandTurn(r) == r.kind = "send" /\ Slashed(r.input)

\* C16, as the spec states it: with voice output on, a command turn calls
\* speak on the bot message it appends.
C16_CommandNarrated ==
    (CommandTurn(run) /\ voice_on) => "speak" \in Events

\* C16, amended: a command turn, for a known command or an unknown one, never
\* calls speak, with voice output on or off: it appends the bot message,
\* persists the log and reruns.
C16_CommandSilent ==
    CommandTurn(run) =>
        /\ "speak" \notin Events
        /\ "tts_warning" \notin Events
        /\ run.events = <<"append_user", "handle_command", "append_bot", "save", "rerun">>
           \/ run.events = <<"append_user", "handle_command", "append_bot", "save",
                             "save_error", "rerun">>

\* With voice output on, "/time" was sent, answered and saved.
C16_Witness ==
    /\ CommandTurn(run)
    /\ voice_on
    /\ run.input = <<"/time">>
    /\ Last(chat).text = <<"[clock] Current time:", " ", HMS[now]>>
    /\ Wrote

-----------------------------------------------------------------------------
(* C17 *)

\* The run called speak: a model-path turn or a "Continue reading" with voice
\* output on.
SpokenTurn(r) == \E i \in DOMAIN r.events : r.events[i] = "speak"

\* C17: in a turn that calls speak, on the model path or for "continue
\* reading", the log and the store after the turn do not depend on whether
\* speak succeeded or failed: in both cases the log is the log before the
\* turn with the turn's messages appended (the user message and the bot
\* message, or the continuation), save_memory is called on it after speak,
\* and the store holds it when that call wrote, and is as it was or
\* unreadable when it did not.
C17_SpeechFailureHarmless ==
    [][SpokenTurn(run') =>
          /\ run'.kind \in {"send", "continue"}
          /\ IF run'.kind = "continue"
             THEN chat' = Append(chat, Message("bot", Last(chat).meta.remainder[1], now,
                                               Meta(Last(chat).meta["full"], None)))
             ELSE /\ Len(chat') = Len(chat) + 2
                  /\ IsPrefix(chat, chat')
                  /\ chat'[Len(chat) + 1] =
                         Message("user", strip(run'.input), now, EmptyMeta)
                  /\ Last(chat').role = "bot"
                  /\ Last(chat').meta.present
                  /\ Last(chat').text =
                         present(Last(chat').meta["full"], trim_long_reads).displayed
          /\ "save" \in Events'
          /\ Last(run'.events) = "rerun"
          /\ IF Wrote'
             THEN LoadReturnsTrailing(chat)'
             ELSE file' = file \/ load_memory(file') = <<>>]_vars

\* speak failed in a "Continue reading" whose save wrote the store: the
\* continuation is in the log and in the store.
C17_Witness ==
    /\ run.kind = "continue"
    /\ "tts_warning" \in Events
    /\ Wrote
    /\ Len(load_memory(file)) = Len(chat)
    /\ Last(load_memory(file)).text = Last(chat).text
    /\ Last(chat).meta.remainder = None

-----------------------------------------------------------------------------
(* C18 *)

\* The run is a turn that called save_memory on the log: a command turn, a
\* model-path turn or a "Continue reading".
SavingTurn(r) ==
    /\ r.kind \in {"send", "continue"}
    /\ \E i \in DOMAIN r.events : r.events[i] = "save"

\* C18: a turn whose save fails keeps its messages in the log (the log before
\* the turn with the turn's messages appended, or the confirmation alone
\* after "/clear"), leaves the store as it was or unreadable, and ends with
\* the rerun as any turn does; a turn whose save writes leaves the store
\* holding the trailing MAX_MEMORY_MESSAGES entries of the whole log, the
\* messages of earlier turns whose save failed among them.
C18_FailedSaveResync ==
    [][SavingTurn(run') =>
          /\ Last(chat').role = "bot"
          /\ Last(chat').time = now
          /\ IF ClearTurn(run') THEN Len(chat') = 1
             ELSE IsPrefix(chat, chat') /\ Len(chat') > Len(chat)
          /\ run'.kind = "continue" =>
                 chat' = Append(chat, Message("bot", Last(chat).meta.remainder[1], now,
                                              Meta(Last(chat).meta["full"], None)))
          /\ Last(run'.events) = "rerun"
          /\ IF Wrote'
             THEN LoadReturnsTrailing(chat)'
             ELSE file' = file \/ load_memory(file') = <<>>]_vars

\* The save of a turn failed, and the save of the next turn, on the model
\* path, wrote the store: the store holds the messages of both turns.
C18_Witness ==
    /\ run.after_failed_save
    /\ ModelTurn(run)
    /\ Wrote
    /\ Len(chat) >= 4
    /\ chat[Len(chat) - 2].role = "bot"
    /\ chat[Len(chat) - 2].time >= 0
    /\ chat[Len(chat) - 2].time = Last(chat).time - 1
    /\ Len(load_memory(file)) = Len(chat)
    /\ load_memory(file)[Len(chat) - 2].text = chat[Len(chat) - 2].text

-----------------------------------------------------------------------------
(* C19 *)

\* C19: "Clear persistent memory (all)" changes neither the log, the last
\* response nor the settings; when its save_memory([]) writes, the store holds
\* an empty sequence, and stays so until the next call of save_memory.  The
\* next turn of the session whose save writes puts the trailing
\* MAX_MEMORY_MESSAGES entries of the whole log into the store: unless that
\* turn is "/clear", they hold every message the log held before the clear.
C19_ClearStoreOnly ==
    [][/\ run'.kind = "clear_memory" =>
              /\ chat' = chat
              /\ last_response' = last_response
              /\ settings' = settings
              /\ Events' \subseteq {"save", "save_error"}
              /\ IF Wrote'
                 THEN file'.state = "json" /\ load_memory(file') = <<>>
                 ELSE file' = file \/ load_memory(file') = <<>>
       /\ (run'.after_clear /\ ~SavingTurn(run') /\ run'.kind # "clear_memory") =>
              /\ file' = file
              /\ load_memory(file') = <<>>
       /\ (run'.after_clear /\ SavingTurn(run') /\ Wrote') =>
              /\ LoadReturnsTrailing(chat)'
              /\ ~ClearTurn(run') =>
                     /\ IsPrefix(chat, chat')
                     /\ \A i \in DOMAIN chat :
                            SameMessage(load_memory(file')[i], chat[i])]_vars

\* The store was emptied while the log held the three messages of an earlier
\* session, and the next turn, on the model path, wrote them back with its own.
C19_Witness ==
    /\ run.after_clear
    /\ ModelTurn(run)
    /\ Wrote
    /\ Len(chat) = 5
    /\ chat[1].time = EarlierStamp
    /\ chat[3].meta.remainder # None
    /\ Len(load_memory(file)) = 5
    /\ SameMessage(load_memory(file)[3], chat[3])

====
